---- MODULE Spec2Model ----
(***************************************************************************)
(* Configuration loading of the OpenEdu MCP server (src/src/config.py).    *)
(*                                                                         *)
(* Python objects live on a heap of dict, list and dataclass-instance     *)
(* objects, so that aliasing and in-place modification can be expressed.   *)
(* A dataclass instance is stored as its attribute dictionary, which is    *)
(* the very object that instance.__dict__ hands out.                       *)
(***************************************************************************)
EXTENDS Integers, Sequences, FiniteSets, TLC

VARIABLES
    env,        \* os.environ: variable name -> string, or Unset
    files,      \* file system: path -> NoFile, Malformed, or a YAML document
    heap,       \* the Python heap: address -> object
    pc,         \* position of the calling program
    edits,      \* number of set-up steps taken so far
    outcome,    \* what the last load_config call did
    configs,    \* Config instances the caller holds, in order of creation
    mappings,   \* mappings the caller got from to_dict
    returned,   \* the deep value of each of configs when its call returned
    touched,    \* the fields of configs the caller assigned to directly
    merged      \* base, override and results of the _merge_configs calls

vars == <<env, files, heap, pc, edits, outcome, configs, mappings, returned, touched, merged>>

-----------------------------------------------------------------------------
(* Python values.  A value held in a container or attribute is a scalar or *)
(* a reference to a heap object.                                           *)

PyInt(n)   == [t |-> "int",   i |-> n, s |-> ""]
PyStr(x)   == [t |-> "str",   i |-> 0, s |-> x]
PyFloat(x) == [t |-> "float", i |-> 0, s |-> x]
PyBool(b)  == [t |-> "bool",  i |-> IF b THEN 1 ELSE 0, s |-> ""]
PyNone     == [t |-> "none",  i |-> 0, s |-> ""]
Ref(a)     == [t |-> "ref",   i |-> a, s |-> ""]

IsRef(v) == v.t = "ref"

EmptyMap == [k \in {} |-> PyNone]

\* a dict; also the attribute dictionary of a dataclass instance
DictObj(d) == [kind |-> "dict", d |-> d,        l |-> <<>>]
ListObj(l) == [kind |-> "list", d |-> EmptyMap, l |-> l]

Alloc(h, obj) == [err |-> "", heap |-> Append(h, obj), val |-> Ref(Len(h) + 1)]

\* isinstance(v, dict): what ** can unpack and what has .get and .items
IsDict(h, v) == IsRef(v) /\ h[v.i].kind = "dict"
IsList(h, v) == IsRef(v) /\ h[v.i].kind = "list"

\* the result of a Python expression: the exception raised ("" for none), the
\* heap after it and its value
Ok(h, v)    == [err |-> "", heap |-> h, val |-> v]
Raise(h, e) == [err |-> e,  heap |-> h, val |-> PyNone]

-----------------------------------------------------------------------------
(* Trees: the content of a YAML document, and the deep value of a heap     *)
(* object with the references followed.                                    *)

NInt(n)   == [t |-> "int",   i |-> n, s |-> "", m |-> EmptyMap, l |-> <<>>]
NStr(x)   == [t |-> "str",   i |-> 0, s |-> x,  m |-> EmptyMap, l |-> <<>>]
NFloat(x) == [t |-> "float", i |-> 0, s |-> x,  m |-> EmptyMap, l |-> <<>>]
NBool(b)  == [t |-> "bool",  i |-> IF b THEN 1 ELSE 0, s |-> "", m |-> EmptyMap, l |-> <<>>]
NNone     == [t |-> "none",  i |-> 0, s |-> "", m |-> EmptyMap, l |-> <<>>]
NMap(m)   == [t |-> "map",   i |-> 0, s |-> "", m |-> m, l |-> <<>>]
NList(l)  == [t |-> "list",  i |-> 0, s |-> "", m |-> EmptyMap, l |-> l]

NScalar(v) == [t |-> v.t, i |-> v.i, s |-> v.s, m |-> EmptyMap, l |-> <<>>]
Scalar(n)  == [t |-> n.t, i |-> n.i, s |-> n.s]

Has(n, k) == n.t = "map" /\ k \in DOMAIN n.m

\* The one element of a singleton set.  Only({e(x) : x \in {v}}) is e(v) with v
\* evaluated once, the way a Python statement evaluates its right-hand side
\* once before the next statement runs.
Only(S) == CHOOSE x \in S : TRUE

RECURSIVE Build(_, _), BuildMap(_, _, _, _), BuildList(_, _, _, _)
\* fresh heap objects for a tree, children first
Build(h, n) ==
    CASE n.t = "map"  -> Only({Alloc(r.heap, DictObj(r.d)) :
                                 r \in {BuildMap(h, n.m, DOMAIN n.m, EmptyMap)}})
      [] n.t = "list" -> Only({Alloc(r.heap, ListObj(r.l)) :
                                 r \in {BuildList(h, n.l, 1, <<>>)}})
      [] OTHER        -> Ok(h, Scalar(n))
BuildMap(h, m, keys, acc) ==
    IF keys = {} THEN [heap |-> h, d |-> acc]
    ELSE Only({Only({BuildMap(r.heap, m, keys \ {k}, acc @@ (k :> r.val)) :
                       r \in {Build(h, m[k])}}) :
                 k \in {CHOOSE x \in keys : TRUE}})
BuildList(h, l, j, acc) ==
    IF j > Len(l) THEN [heap |-> h, l |-> acc]
    ELSE Only({BuildList(r.heap, l, j + 1, Append(acc, r.val)) : r \in {Build(h, l[j])}})

RECURSIVE Deep(_, _)
\* the value of v with every reference followed
Deep(h, v) ==
    IF ~IsRef(v) THEN NScalar(v)
    ELSE LET o == h[v.i]
         IN  IF o.kind = "list"
             THEN NList([j \in 1..Len(o.l) |-> Deep(h, o.l[j])])
             ELSE NMap([k \in DOMAIN o.d |-> Deep(h, o.d[k])])

-----------------------------------------------------------------------------
(* The dataclasses: each class's fields with a default value.  The fields  *)
(* of APIConfig without a default are required constructor arguments.      *)

ServerConfig ==
    [name      |-> PyStr("openedu-mcp-server"),
     version   |-> PyStr("1.0.0"),
     host      |-> PyStr("localhost"),
     port      |-> PyInt(8000),
     log_level |-> PyStr("INFO"),
     debug     |-> PyBool(FALSE)]

CacheConfig ==
    [database_path      |-> PyStr("~/.openedu-mcp/cache.db"),
     default_ttl        |-> PyInt(3600),
     max_size_mb        |-> PyInt(100),
     cleanup_interval   |-> PyInt(3600),
     enable_compression |-> PyBool(TRUE)]

APIConfigFields == {"base_url", "rate_limit", "timeout", "retry_attempts", "backoff_factor"}

APIConfig ==
    [retry_attempts |-> PyInt(3),
     backoff_factor |-> PyFloat("2.0")]

ContentFilters ==
    [enable_age_appropriate      |-> PyBool(TRUE),
     enable_curriculum_alignment |-> PyBool(TRUE),
     min_educational_relevance   |-> PyFloat("0.7")]

LoggingConfig ==
    [level            |-> PyStr("INFO"),
     format           |-> PyStr("json"),
     file_path        |-> PyStr("~/.openedu-mcp/logs/server.log"),
     max_file_size_mb |-> PyInt(10),
     backup_count     |-> PyInt(5)]

MonitoringConfig ==
    [enable_metrics        |-> PyBool(TRUE),
     metrics_port          |-> PyInt(9090),
     health_check_interval |-> PyInt(60)]

Services == {"open_library", "wikipedia", "dictionary", "arxiv"}

\* the default factories of APIsConfig: what APIsConfig() holds for a service
APIsConfig ==
    [open_library |-> NMap([base_url       |-> NStr("https://openlibrary.org"),
                            rate_limit     |-> NInt(100),
                            timeout        |-> NInt(30),
                            retry_attempts |-> NInt(3),
                            backoff_factor |-> NFloat("2.0")]),
     wikipedia    |-> NMap([base_url       |-> NStr("https://en.wikipedia.org/api/rest_v1"),
                            rate_limit     |-> NInt(200),
                            timeout        |-> NInt(30),
                            retry_attempts |-> NInt(2),
                            backoff_factor |-> NFloat("2.0")]),
     dictionary   |-> NMap([base_url       |-> NStr("https://api.dictionaryapi.dev/api/v2"),
                            rate_limit     |-> NInt(450),
                            timeout        |-> NInt(15),
                            retry_attempts |-> NInt(3),
                            backoff_factor |-> NFloat("2.0")]),
     arxiv        |-> NMap([base_url       |-> NStr("http://export.arxiv.org/api"),
                            rate_limit     |-> NInt(3),
                            timeout        |-> NInt(60),
                            retry_attempts |-> NInt(3),
                            backoff_factor |-> NFloat("2.0")])]

StrList(l) == NList([j \in 1..Len(l) |-> NStr(l[j])])

\* the default factories of EducationConfig: what EducationConfig() holds
EducationConfig ==
    [grade_levels         |-> StrList(<<"K-2", "3-5", "6-8", "9-12", "College">>),
     curriculum_standards |-> StrList(<<"Common Core", "NGSS", "State Standards">>),
     subjects             |-> StrList(<<"Mathematics", "Science", "English Language Arts",
                                        "Social Studies", "Arts", "Physical Education",
                                        "Technology">>),
     content_filters      |-> NMap([k \in DOMAIN ContentFilters |-> NScalar(ContentFilters[k])])]

ScalarDefaults(cls) == NMap([k \in DOMAIN cls |-> NScalar(cls[k])])

\* Config(): every section built by its default factory
DefaultConfig ==
    NMap([server     |-> ScalarDefaults(ServerConfig),
          cache      |-> ScalarDefaults(CacheConfig),
          apis       |-> NMap(APIsConfig),
          education  |-> NMap(EducationConfig),
          logging    |-> ScalarDefaults(LoggingConfig),
          monitoring |-> ScalarDefaults(MonitoringConfig)])

\* a constructor that drops the keys that are no field
NewIgnoringUnknown(h, fields, defaults, kw) ==
    IF ~IsDict(h, kw) THEN Raise(h, "TypeError")
    ELSE LET given == h[kw.i].d
         IN  IF ~(fields \subseteq DOMAIN given \cup DOMAIN defaults)
             THEN Raise(h, "TypeError")
             ELSE Alloc(h, DictObj([f \in fields |->
                              IF f \in DOMAIN given THEN given[f] ELSE defaults[f]]))

\* The __init__ a dataclass generates, called as Cls(**kw): kw must be a
\* mapping, each of its keys a field, and every field without a default given.
New(h, fields, defaults, kw) ==
    IF ~IsDict(h, kw) THEN Raise(h, "TypeError")
    ELSE LET given == h[kw.i].d
         IN  IF ~(DOMAIN given \subseteq fields) THEN Raise(h, "TypeError")
             ELSE IF ~(fields \subseteq DOMAIN given \cup DOMAIN defaults)
                  THEN Raise(h, "TypeError")
                  ELSE Alloc(h, DictObj([f \in fields |->
                                   IF f \in DOMAIN given THEN given[f] ELSE defaults[f]]))

\* v.get(k, {}) and v.get(k, []): the default is a fresh object (left
\* unallocated when the key is there, where nothing can reach it)
Get(h, v, k, default) ==
    IF ~IsDict(h, v) THEN Raise(h, "AttributeError")
    ELSE IF k \in DOMAIN h[v.i].d THEN Ok(h, h[v.i].d[k])
         ELSE Alloc(h, default)

EmptyDict == DictObj(EmptyMap)
EmptyList == ListObj(<<>>)

\* data.get(path[1], {}).get(path[2], {}) ... .get(path[n], default)
RECURSIVE GetPath(_, _, _, _)
GetPath(h, v, path, default) ==
    IF Len(path) = 1 THEN Get(h, v, path[1], default)
    ELSE Only({IF g.err # "" THEN g ELSE GetPath(g.heap, g.val, Tail(path), default) :
                 g \in {Get(h, v, path[1], EmptyDict)}})

\* the keyword arguments of from_dict's constructor calls, in evaluation order
FromDictArgs ==
    << [at |-> <<"server">>,                       fields |-> DOMAIN ServerConfig, defaults |-> ServerConfig],
       [at |-> <<"cache">>,                        fields |-> DOMAIN CacheConfig,  defaults |-> CacheConfig],
       [at |-> <<"apis", "open_library">>,         fields |-> APIConfigFields,     defaults |-> APIConfig],
       [at |-> <<"apis", "wikipedia">>,            fields |-> APIConfigFields,     defaults |-> APIConfig],
       [at |-> <<"apis", "dictionary">>,           fields |-> APIConfigFields,     defaults |-> APIConfig],
       [at |-> <<"apis", "arxiv">>,                fields |-> APIConfigFields,     defaults |-> APIConfig],
       [at |-> <<"education", "grade_levels">>,         fields |-> {}, defaults |-> EmptyMap],
       [at |-> <<"education", "curriculum_standards">>, fields |-> {}, defaults |-> EmptyMap],
       [at |-> <<"education", "subjects">>,             fields |-> {}, defaults |-> EmptyMap],
       [at |-> <<"education", "content_filters">>, fields |-> DOMAIN ContentFilters, defaults |-> ContentFilters],
       [at |-> <<"logging">>,                      fields |-> DOMAIN LoggingConfig,    defaults |-> LoggingConfig],
       [at |-> <<"monitoring">>,                   fields |-> DOMAIN MonitoringConfig, defaults |-> MonitoringConfig] >>

IsListArg(a) == a.fields = {}

\* one keyword argument: a list read with .get(key, []), or Cls(**....get(key, {}))
FromDictArg(h, data, a) ==
    IF IsListArg(a) THEN GetPath(h, data, a.at, EmptyList)
    ELSE Only({IF g.err # "" THEN g ELSE New(g.heap, a.fields, a.defaults, g.val) :
                 g \in {GetPath(h, data, a.at, EmptyDict)}})

RECURSIVE FromDictFrom(_, _, _, _)
FromDictFrom(h, data, j, acc) ==
    IF j > Len(FromDictArgs) THEN [err |-> "", heap |-> h, val |-> PyNone, args |-> acc]
    ELSE Only({IF r.err # ""
               THEN [err |-> r.err, heap |-> r.heap, val |-> PyNone, args |-> acc]
               ELSE FromDictFrom(r.heap, data, j + 1, Append(acc, r.val)) :
                 r \in {FromDictArg(h, data, FromDictArgs[j])}})

\* APIsConfig(...), EducationConfig(...) and cls(...) over the arguments a
FromDictNew(h, a) ==
    Only({Only({Alloc(edu.heap, DictObj([server |-> a[1], cache |-> a[2], apis |-> apis.val,
                                         education |-> edu.val, logging |-> a[11],
                                         monitoring |-> a[12]])) :
                  edu \in {Alloc(apis.heap, DictObj([grade_levels |-> a[7],
                                                     curriculum_standards |-> a[8],
                                                     subjects |-> a[9],
                                                     content_filters |-> a[10]]))}}) :
            apis \in {Alloc(h, DictObj([open_library |-> a[3], wikipedia |-> a[4],
                                        dictionary |-> a[5], arxiv |-> a[6]]))}})

\* Config.from_dict(data)
from_dict(h, data) ==
    Only({IF r.err # "" THEN Raise(r.heap, r.err) ELSE FromDictNew(r.heap, r.args) :
            r \in {FromDictFrom(h, data, 1, <<>>)}})

Attr(h, v, name) == h[v.i].d[name]

\* to_dict with 'subjects' read from curriculum_standards
ToDictMixedUp(h, self) ==
    LET apisOf == Attr(h, self, "apis")
        eduOf  == Attr(h, self, "education")
    IN  Only({Only({Alloc(edu.heap, DictObj([server     |-> Attr(h, self, "server"),
                                             cache      |-> Attr(h, self, "cache"),
                                             apis       |-> apis.val,
                                             education  |-> edu.val,
                                             logging    |-> Attr(h, self, "logging"),
                                             monitoring |-> Attr(h, self, "monitoring")])) :
                      edu \in {Alloc(apis.heap,
                                     DictObj([k \in DOMAIN EducationConfig |->
                                                IF k = "subjects"
                                                THEN Attr(h, eduOf, "curriculum_standards")
                                                ELSE Attr(h, eduOf, k)]))}}) :
                apis \in {Alloc(h, DictObj([s \in Services |-> Attr(h, apisOf, s)]))}})

\* Config.to_dict(self): new dicts for the top level, 'apis' and 'education';
\* every other mapping is the __dict__ of the instance itself, and the lists
\* are the instance's lists
to_dict(h, self) ==
    LET apisOf == Attr(h, self, "apis")
        eduOf  == Attr(h, self, "education")
    IN  Only({Only({Alloc(edu.heap, DictObj([server     |-> Attr(h, self, "server"),
                                             cache      |-> Attr(h, self, "cache"),
                                             apis       |-> apis.val,
                                             education  |-> edu.val,
                                             logging    |-> Attr(h, self, "logging"),
                                             monitoring |-> Attr(h, self, "monitoring")])) :
                      edu \in {Alloc(apis.heap,
                                     DictObj([k \in DOMAIN EducationConfig |-> Attr(h, eduOf, k)]))}}) :
                apis \in {Alloc(h, DictObj([s \in Services |-> Attr(h, apisOf, s)]))}})

-----------------------------------------------------------------------------
(* Strings: str.lower(), str.strip() and int(str), character by character. *)

Char(s, j) == SubSeq(s, j, j)

UpperCase == "ABCDEFGHIJKLMNOPQRSTUVWXYZ"
LowerCase == "abcdefghijklmnopqrstuvwxyz"
Digits    == "0123456789"
Whitespace == {" ", "\t", "\n", "\r"}

LowerChar(c) ==
    IF \E j \in 1..Len(UpperCase) : Char(UpperCase, j) = c
    THEN Char(LowerCase, CHOOSE j \in 1..Len(UpperCase) : Char(UpperCase, j) = c)
    ELSE c

\* the value compared as it is, .lower() forgotten
LowerForgotten(s) == s

RECURSIVE Lower(_)
Lower(s) == IF s = "" THEN "" ELSE LowerChar(Char(s, 1)) \o Lower(SubSeq(s, 2, Len(s)))

RECURSIVE LStrip(_)
LStrip(s) == IF s # "" /\ Char(s, 1) \in Whitespace THEN LStrip(SubSeq(s, 2, Len(s))) ELSE s
RECURSIVE RStrip(_)
RStrip(s) == IF s # "" /\ Char(s, Len(s)) \in Whitespace THEN RStrip(SubSeq(s, 1, Len(s) - 1)) ELSE s
Strip(s) == RStrip(LStrip(s))

IsDigit(c)    == \E d \in 0..9 : Char(Digits, d + 1) = c
DigitValue(c) == CHOOSE d \in 0..9 : Char(Digits, d + 1) = c

\* decimal digits, single underscores allowed between two digits
RECURSIVE ScanDigits(_, _, _, _)
ScanDigits(s, j, acc, prev) ==
    IF j > Len(s) THEN [ok |-> prev = "digit", n |-> acc]
    ELSE LET c == Char(s, j)
         IN  IF IsDigit(c) THEN ScanDigits(s, j + 1, 10 * acc + DigitValue(c), "digit")
             ELSE IF c = "_" /\ prev = "digit" THEN ScanDigits(s, j + 1, acc, "underscore")
             ELSE [ok |-> FALSE, n |-> 0]

\* int(s): surrounding whitespace, an optional sign, then the digits
ParseInt(s) ==
    LET t    == Strip(s)
        neg  == t # "" /\ Char(t, 1) = "-"
        sign == t # "" /\ Char(t, 1) \in {"+", "-"}
        r    == ScanDigits(IF sign THEN SubSeq(t, 2, Len(t)) ELSE t, 1, 0, "start")
    IN  [ok |-> r.ok, n |-> IF neg THEN 0 - r.n ELSE r.n]

-----------------------------------------------------------------------------
(* The environment and the overrides read from it.                         *)

\* an optional string: None, or os.getenv of a variable that is not set
None    == [set |-> FALSE, s |-> ""]
Some(x) == [set |-> TRUE,  s |-> x]
\* Python's truth value of an optional string: None and "" are false
Truthy(o) == o.set /\ o.s # ""

ConfigPathVar == "OPENEDU_MCP_CONFIG_PATH"

\* the variables _get_env_overrides reads, in the order it reads them
EnvOverrides ==
    << [var |-> "OPENEDU_MCP_HOST",                    at |-> <<"server", "host">>,                    type |-> "str"],
       [var |-> "OPENEDU_MCP_PORT",                    at |-> <<"server", "port">>,                    type |-> "int"],
       [var |-> "OPENEDU_MCP_LOG_LEVEL",               at |-> <<"server", "log_level">>,               type |-> "str"],
       [var |-> "OPENEDU_MCP_DEBUG",                   at |-> <<"server", "debug">>,                   type |-> "bool"],
       [var |-> "OPENEDU_MCP_CACHE_PATH",              at |-> <<"cache", "database_path">>,            type |-> "str"],
       [var |-> "OPENEDU_MCP_CACHE_TTL",               at |-> <<"cache", "default_ttl">>,              type |-> "int"],
       [var |-> "OPENEDU_MCP_CACHE_MAX_SIZE_MB",       at |-> <<"cache", "max_size_mb">>,              type |-> "int"],
       [var |-> "OPENEDU_MCP_OPEN_LIBRARY_RATE_LIMIT", at |-> <<"apis", "open_library", "rate_limit">>, type |-> "int"],
       [var |-> "OPENEDU_MCP_WIKIPEDIA_RATE_LIMIT",    at |-> <<"apis", "wikipedia", "rate_limit">>,    type |-> "int"] >>

OverrideVars == {EnvOverrides[j].var : j \in 1..Len(EnvOverrides)}
EnvVars      == OverrideVars \cup {ConfigPathVar}

\* the string kept as it is when it is no integer
CoerceUnchecked(type, s) ==
    CASE type = "str"  -> [ok |-> TRUE, val |-> PyStr(s)]
      [] type = "int"  -> Only({[ok |-> TRUE, val |-> IF p.ok THEN PyInt(p.n) ELSE PyStr(s)] :
                                  p \in {ParseInt(s)}})
      [] type = "bool" -> [ok |-> TRUE, val |-> PyBool(Lower(s) = "true")]

\* the value an override variable's string is turned into
Coerce(type, s) ==
    CASE type = "str"  -> [ok |-> TRUE, val |-> PyStr(s)]
      [] type = "int"  -> LET p == ParseInt(s) IN [ok |-> p.ok, val |-> PyInt(p.n)]
      [] type = "bool" -> [ok |-> TRUE, val |-> PyBool(Lower(s) = "true")]

\* d[k] = v
SetItem(h, d, k, v) == [h EXCEPT ![d.i].d = (k :> v) @@ @]

\* d.setdefault(path[1], {}) ... .setdefault(path[n-1], {})[path[n]] = v
RECURSIVE SetDefaultPath(_, _, _, _)
SetDefaultPath(h, d, path, v) ==
    IF Len(path) = 1 THEN SetItem(h, d, path[1], v)
    ELSE IF path[1] \in DOMAIN h[d.i].d
         THEN SetDefaultPath(h, h[d.i].d[path[1]], Tail(path), v)
         ELSE Only({SetDefaultPath(SetItem(a.heap, d, path[1], a.val), a.val, Tail(path), v) :
                      a \in {Alloc(h, EmptyDict)}})

RECURSIVE EnvOverridesFrom(_, _, _, _)
EnvOverridesFrom(h, e, overrides, j) ==
    IF j > Len(EnvOverrides) THEN Ok(h, overrides)
    ELSE LET o == EnvOverrides[j]
         IN  IF ~Truthy(e[o.var]) THEN EnvOverridesFrom(h, e, overrides, j + 1)
             ELSE Only({IF ~c.ok THEN Raise(h, "ValueError")
                        ELSE Only({EnvOverridesFrom(h2, e, overrides, j + 1) :
                                     h2 \in {SetDefaultPath(h, overrides, o.at, c.val)}}) :
                          c \in {Coerce(o.type, e[o.var].s)}})

\* _get_env_overrides()
get_env_overrides(h, e) ==
    Only({EnvOverridesFrom(a.heap, e, a.val, 1) : a \in {Alloc(h, EmptyDict)}})

-----------------------------------------------------------------------------
(* _merge_configs                                                          *)

\* result = base, the copy forgotten
CopyAlias(h, base) == IF IsRef(base) THEN Ok(h, base) ELSE Raise(h, "AttributeError")

\* base.copy(): a new object with the same entries (dict and list have it)
Copy(h, base) == IF IsRef(base) THEN Alloc(h, h[base.i]) ELSE Raise(h, "AttributeError")

RECURSIVE merge_configs(_, _, _), MergeItems(_, _, _, _)
\* the loop with result[key] = value for every key, nested mappings included
MergeItemsShallow(h, result, override, keys) ==
    IF keys = {} THEN Ok(h, result)
    ELSE Only({IF h[result.i].kind # "dict" THEN Raise(h, "TypeError")
               ELSE Only({MergeItems(h2, result, override, keys \ {key}) :
                            h2 \in {SetItem(h, result, key, h[override.i].d[key])}}) :
                 key \in {CHOOSE x \in keys : TRUE}})

\* the loop over override.items(); keys are the items still to visit
MergeItems(h, result, override, keys) ==
    IF keys = {} THEN Ok(h, result)
    ELSE Only({
           LET value == h[override.i].d[key]
               cur   == h[result.i]
           IN  IF cur.kind # "dict" THEN Raise(h, "TypeError")
               ELSE IF key \in DOMAIN cur.d /\ IsDict(h, cur.d[key]) /\ IsDict(h, value)
                    THEN Only({IF r.err # "" THEN r
                               ELSE Only({MergeItems(h2, result, override, keys \ {key}) :
                                            h2 \in {SetItem(r.heap, result, key, r.val)}}) :
                                 r \in {merge_configs(h, cur.d[key], value)}})
                    ELSE Only({MergeItems(h2, result, override, keys \ {key}) :
                                 h2 \in {SetItem(h, result, key, value)}}) :
             key \in {CHOOSE x \in keys : TRUE}})

merge_configs(h, base, override) ==
    Only({IF c.err # "" THEN c
          ELSE IF ~IsDict(h, override) THEN Raise(c.heap, "AttributeError")
          ELSE MergeItems(c.heap, c.val, override, DOMAIN h[override.i].d) :
            c \in {Copy(h, base)}})

-----------------------------------------------------------------------------
(* load_config                                                             *)

NoFile    == [kind |-> "absent",    doc |-> NNone]
Malformed == [kind |-> "malformed", doc |-> NNone]
Yaml(n)   == [kind |-> "yaml",      doc |-> n]

\* Path(p).exists()
Exists(fs, p) == p \in DOMAIN fs /\ fs[p].kind # "absent"

DefaultPath     == "config/default.yaml"
DevelopmentPath == "config/development.yaml"

\* os.getenv(name, default)
Getenv(e, name, default) == IF e[name].set THEN e[name].s ELSE default

possible_paths(e) == <<DefaultPath, DevelopmentPath, Getenv(e, ConfigPathVar, DefaultPath)>>

\* the loop over possible_paths: the first that exists, and the paths probed
RECURSIVE FirstExisting(_, _, _, _)
FirstExisting(fs, paths, j, probed) ==
    IF j > Len(paths) THEN [file |-> None, probed |-> probed]
    ELSE IF Exists(fs, paths[j]) THEN [file |-> Some(paths[j]), probed |-> Append(probed, paths[j])]
    ELSE FirstExisting(fs, paths, j + 1, Append(probed, paths[j]))

\* the file load_config settles on before it opens anything
Resolve(e, fs, config_path) ==
    IF Truthy(config_path) THEN [file |-> Some(config_path.s), probed |-> <<>>]
    ELSE FirstExisting(fs, possible_paths(e), 1, <<>>)

\* bool(v) is false
Falsy(h, v) ==
    CASE v.t = "none"  -> TRUE
      [] v.t = "bool"  -> v.i = 0
      [] v.t = "int"   -> v.i = 0
      [] v.t = "str"   -> v.s = ""
      [] v.t = "float" -> v.s \in {"0.0", "-0.0"}
      [] v.t = "ref"   -> h[v.i].d = EmptyMap /\ h[v.i].l = <<>>

\* yaml.safe_load(f) or {}
SafeLoadOrEmpty(h, file) ==
    IF file.kind = "malformed" THEN Raise(h, "YAMLError")
    ELSE Only({IF Falsy(b.heap, b.val) THEN Alloc(b.heap, EmptyDict) ELSE b :
                 b \in {Build(h, file.doc)}})

\* config_data after the file has been read, if one was resolved and exists
ReadConfigData(h, fs, file) ==
    IF file.set /\ Exists(fs, file.s) THEN SafeLoadOrEmpty(h, fs[file.s])
    ELSE Alloc(h, EmptyDict)

\* the statements of load_config after the file has been read
OverrideAndBuild(data, e) ==
    IF data.err # "" THEN data
    ELSE Only({IF ov.err # "" THEN ov
               ELSE Only({IF m.err # "" THEN m ELSE from_dict(m.heap, m.val) :
                            m \in {merge_configs(ov.heap, data.val, ov.val)}}) :
                 ov \in {get_env_overrides(data.heap, e)}})

\* load_config(config_path): the exception or the Config, with the paths whose
\* existence was tested and the files opened
load_config(h, e, fs, config_path) ==
    Only({Only({[err |-> res.err, heap |-> res.heap, val |-> res.val,
                 probed |-> IF r.file.set THEN Append(r.probed, r.file.s) ELSE r.probed,
                 opened |-> IF r.file.set /\ Exists(fs, r.file.s) THEN <<r.file.s>> ELSE <<>>] :
                  res \in {Only({OverrideAndBuild(data, e) :
                                   data \in {ReadConfigData(h, fs, r.file)}})}}) :
            r \in {Resolve(e, fs, config_path)}})

-----------------------------------------------------------------------------
(* The world the program is started in: environment and configuration      *)
(* files.  Bounds of the exploration.                                      *)

MaxSetup    == 2   \* variables set and files written before the program starts
MaxDocEdits == 2   \* edits made to the configuration file before the program starts
MaxLoads    == 2   \* load_config calls of one caller
MaxDicts    == 2   \* to_dict calls of one caller
MaxMods     == 2   \* modifications the caller makes
MaxPuts     == 3   \* entries put into the mappings handed to _merge_configs

CustomPath == "custom.yaml"
Paths      == {DefaultPath, DevelopmentPath, CustomPath}

\* a document that sets every field, to a value other than its default
FullDocFor(p) ==
    NMap([server |-> NMap([name |-> NStr(p), version |-> NStr("2.0.0"), host |-> NStr("0.0.0.0"),
                           port |-> NInt(9000), log_level |-> NStr("DEBUG"), debug |-> NBool(TRUE)]),
          cache |-> NMap([database_path |-> NStr("/tmp/cache.db"), default_ttl |-> NInt(60),
                          max_size_mb |-> NInt(5), cleanup_interval |-> NInt(30),
                          enable_compression |-> NBool(FALSE)]),
          apis |-> NMap([s \in Services |->
                          NMap([base_url |-> NStr("http://" \o s \o ".example"),
                                rate_limit |-> NInt(10), timeout |-> NInt(5),
                                retry_attempts |-> NInt(1), backoff_factor |-> NFloat("1.5")])]),
          education |-> NMap([grade_levels |-> StrList(<<"K-2">>),
                              curriculum_standards |-> StrList(<<"NGSS">>),
                              subjects |-> StrList(<<"Art">>),
                              content_filters |-> NMap([enable_age_appropriate |-> NBool(FALSE),
                                                        enable_curriculum_alignment |-> NBool(FALSE),
                                                        min_educational_relevance |-> NFloat("0.5")])]),
          logging |-> NMap([level |-> NStr("DEBUG"), format |-> NStr("text"),
                            file_path |-> NStr("/tmp/server.log"),
                            max_file_size_mb |-> NInt(1), backup_count |-> NInt(2)]),
          monitoring |-> NMap([enable_metrics |-> NBool(FALSE), metrics_port |-> NInt(9100),
                               health_check_interval |-> NInt(5)])])

\* a document that sets only what APIConfig requires
ApisDoc ==
    NMap([apis |-> NMap([s \in Services |->
                          NMap([base_url |-> NStr("http://" \o s \o ".example"),
                                rate_limit |-> NInt(10), timeout |-> NInt(5)])])])

\* what a file can hold: broken YAML, an empty document, a top-level list,
\* a partial mapping, a full mapping
Contents(p) == {Malformed, Yaml(NNone), Yaml(StrList(<<"server">>)), Yaml(ApisDoc), Yaml(FullDocFor(p))}


\* strings an override variable is set to, by the type of its field
EnvStrings(type) ==
    CASE type = "str"  -> {"", "edu.example"}
      [] type = "int"  -> {"", "7000", " -42 ", "7k"}
      [] type = "bool" -> {"", "true", "TRUE", "True", "false", "1"}

\* what load_config is called with: nothing, "", or a path
Args == {None, Some(""), Some(CustomPath), Some(DevelopmentPath)}

NoOutcome == [arg |-> None, err |-> "", val |-> PyNone, probed |-> <<>>, opened |-> <<>>,
              rt |-> ""]
NoMerge   == [base |-> PyNone, override |-> PyNone, before |-> <<>>, results |-> <<>>]

Init ==
    /\ env = [v \in EnvVars |-> None]
    /\ files = [p \in Paths |-> NoFile]
    /\ heap = <<>>
    /\ pc = "setup"
    /\ edits = 0
    /\ outcome = NoOutcome
    /\ configs = <<>>
    /\ mappings = <<>>
    /\ returned = <<>>
    /\ touched = {}
    /\ merged = NoMerge

\* before the program starts: export VAR=s
SetEnv ==
    /\ pc = "setup"
    /\ edits < MaxSetup
    /\ \E j \in 1..Len(EnvOverrides) :
         /\ ~env[EnvOverrides[j].var].set
         /\ \E s \in EnvStrings(EnvOverrides[j].type) :
              env' = [env EXCEPT ![EnvOverrides[j].var] = Some(s)]
    /\ edits' = edits + 1
    /\ UNCHANGED <<files, heap, pc, outcome, configs, mappings, returned, touched, merged>>

\* before the program starts: export OPENEDU_MCP_CONFIG_PATH=p
SetConfigPath ==
    /\ pc = "setup"
    /\ edits < MaxSetup
    /\ ~env[ConfigPathVar].set
    /\ \E p \in {CustomPath, DevelopmentPath} : env' = [env EXCEPT ![ConfigPathVar] = Some(p)]
    /\ edits' = edits + 1
    /\ UNCHANGED <<files, heap, pc, outcome, configs, mappings, returned, touched, merged>>

\* before the program starts: a configuration file is put at p
WriteFile ==
    /\ pc = "setup"
    /\ edits < MaxSetup
    /\ \E p \in Paths :
         /\ ~Exists(files, p)
         /\ \E c \in Contents(p) : files' = [files EXCEPT ![p] = c]
    /\ edits' = edits + 1
    /\ UNCHANGED <<env, heap, pc, outcome, configs, mappings, returned, touched, merged>>

\* the program starts and calls load_config(arg)
Load(arg) ==
    /\ pc = "setup"
    /\ \E r \in {load_config(heap, env, files, arg)} :
         /\ heap' = r.heap
         /\ outcome' = [arg |-> arg, err |-> r.err, val |-> r.val,
                        probed |-> r.probed, opened |-> r.opened, rt |-> ""]
         /\ configs' = IF r.err = "" THEN <<r.val>> ELSE <<>>
         /\ returned' = IF r.err = "" THEN <<Deep(r.heap, r.val)>> ELSE <<>>
    /\ pc' = "loaded"
    /\ UNCHANGED <<env, files, edits, mappings, touched, merged>>

LoadConfig == \E arg \in Args : Load(arg)

\* the caller evaluates Config.from_dict(config.to_dict())
RoundTrip ==
    /\ pc = "loaded"
    /\ outcome.err = ""
    /\ \E d \in {to_dict(heap, configs[1])} :
         \E r \in {from_dict(d.heap, d.val)} :
           /\ heap' = r.heap
           /\ outcome' = [outcome EXCEPT !.rt = r.err]
           /\ mappings' = <<d.val>>
           /\ configs' = IF r.err = "" THEN Append(configs, r.val) ELSE configs
    /\ pc' = "roundtrip"
    /\ UNCHANGED <<env, files, edits, returned, touched, merged>>

Next == SetEnv \/ SetConfigPath \/ WriteFile \/ LoadConfig \/ RoundTrip

Spec == Init /\ [][Next]_vars

-----------------------------------------------------------------------------
(* One configuration file, edited before the program loads it.             *)

RECURSIVE KeyPaths(_)
\* the path of every key of a document, at every nesting level
KeyPaths(n) ==
    IF n.t # "map" THEN {}
    ELSE UNION {{<<k>>} \cup {<<k>> \o p : p \in KeyPaths(n.m[k])} : k \in DOMAIN n.m}

RECURSIVE HasPath(_, _)
HasPath(n, path) ==
    path = <<>> \/ (Has(n, path[1]) /\ HasPath(n.m[path[1]], Tail(path)))

RECURSIVE NodeAt(_, _)
NodeAt(n, path) == IF path = <<>> THEN n ELSE NodeAt(n.m[path[1]], Tail(path))

RECURSIVE RemoveAt(_, _)
RemoveAt(n, path) ==
    IF Len(path) = 1 THEN NMap([k \in DOMAIN n.m \ {path[1]} |-> n.m[k]])
    ELSE NMap([n.m EXCEPT ![path[1]] = RemoveAt(@, Tail(path))])

RECURSIVE PutAt(_, _, _)
PutAt(n, path, v) ==
    IF Len(path) = 1 THEN NMap((path[1] :> v) @@ n.m)
    ELSE NMap([n.m EXCEPT ![path[1]] = PutAt(@, Tail(path), v)])

MapPaths(n) == {p \in {<<>>} \cup KeyPaths(n) : NodeAt(n, p).t = "map"}

TheDoc == files[CustomPath].doc

InitDoc ==
    /\ env = [v \in EnvVars |-> None]
    /\ \E d \in {FullDocFor(CustomPath), ApisDoc, NMap(EmptyMap)} :
         files = [p \in Paths |-> IF p = CustomPath THEN Yaml(d) ELSE NoFile]
    /\ heap = <<>>
    /\ pc = "setup"
    /\ edits = 0
    /\ outcome = NoOutcome
    /\ configs = <<>>
    /\ mappings = <<>>
    /\ returned = <<>>
    /\ touched = {}
    /\ merged = NoMerge

Edit(doc) ==
    /\ pc = "setup"
    /\ edits < MaxDocEdits
    /\ files' = [files EXCEPT ![CustomPath] = Yaml(doc)]
    /\ edits' = edits + 1
    /\ UNCHANGED <<env, heap, pc, outcome, configs, mappings, returned, touched, merged>>

\* a key is deleted from the file, with all that is under it
EditRemove == \E p \in KeyPaths(TheDoc) : Edit(RemoveAt(TheDoc, p))

\* a key the schema does not know is added to one of the file's mappings
EditAddUnknown ==
    \E p \in MapPaths(TheDoc) :
        /\ ~Has(NodeAt(TheDoc, p), "extra")
        /\ Edit(PutAt(TheDoc, p \o <<"extra">>, NInt(1)))

\* a mapping of the file is emptied down to its key ("server:" and nothing else)
EditNull ==
    \E p \in MapPaths(TheDoc) \ {<<>>} : Edit(PutAt(TheDoc, p, NNone))

\* the program starts and calls load_config("custom.yaml")
LoadCustom == Load(Some(CustomPath))

NextDoc == EditRemove \/ EditAddUnknown \/ EditNull \/ LoadCustom \/ RoundTrip

SpecDoc == InitDoc /\ [][NextDoc]_vars
-----------------------------------------------------------------------------
(* A caller that loads configurations, exports them with to_dict and       *)
(* modifies what it was given.                                             *)

\* the object d[path[1]]...[path[n]] refers to
RECURSIVE RefAt(_, _, _)
RefAt(h, v, path) == IF path = <<>> THEN v ELSE RefAt(h, h[v.i].d[path[1]], Tail(path))

Front(path) == SubSeq(path, 1, Len(path) - 1)
Last(path)  == path[Len(path)]

\* the paths of a tree that end in something other than a mapping
LeafPaths(n) == {p \in KeyPaths(n) : NodeAt(n, p).t # "map"}
ListPaths(n) == {p \in KeyPaths(n) : NodeAt(n, p).t = "list"}

Changed == PyStr("changed")

InitCaller ==
    /\ env = [v \in EnvVars |-> None]
    /\ files = [p \in Paths |-> IF p = CustomPath THEN Yaml(FullDocFor(p)) ELSE NoFile]
    /\ heap = <<>>
    /\ pc = "running"
    /\ edits = 0
    /\ outcome = NoOutcome
    /\ configs = <<>>
    /\ mappings = <<>>
    /\ returned = <<>>
    /\ touched = {}
    /\ merged = NoMerge

\* config = load_config("custom.yaml")
CallLoad ==
    /\ pc = "running"
    /\ Len(configs) < MaxLoads
    /\ \E r \in {load_config(heap, env, files, Some(CustomPath))} :
         /\ r.err = ""
         /\ heap' = r.heap
         /\ outcome' = [arg |-> Some(CustomPath), err |-> r.err, val |-> r.val,
                        probed |-> r.probed, opened |-> r.opened, rt |-> ""]
         /\ configs' = Append(configs, r.val)
         /\ returned' = Append(returned, Deep(r.heap, r.val))
    /\ UNCHANGED <<env, files, pc, edits, mappings, touched, merged>>

\* d = config.to_dict()
CallToDict ==
    /\ pc = "running"
    /\ Len(mappings) < MaxDicts
    /\ \E j \in 1..Len(configs) :
         \E d \in {to_dict(heap, configs[j])} :
            /\ heap' = d.heap
            /\ mappings' = Append(mappings, d.val)
    /\ UNCHANGED <<env, files, pc, edits, outcome, configs, returned, touched, merged>>

\* d[k1]...[kn] = "changed", on a mapping to_dict returned
CallerSetItem ==
    /\ pc = "running"
    /\ edits < MaxMods
    /\ \E j \in 1..Len(mappings) :
         \E p \in KeyPaths(Deep(heap, mappings[j])) :
            heap' = SetItem(heap, RefAt(heap, mappings[j], Front(p)), Last(p), Changed)
    /\ edits' = edits + 1
    /\ UNCHANGED <<env, files, pc, outcome, configs, mappings, returned, touched, merged>>

\* d[k1]...[kn].append("changed"), on a list in a mapping to_dict returned
CallerAppend ==
    /\ pc = "running"
    /\ edits < MaxMods
    /\ \E j \in 1..Len(mappings) :
         \E p \in ListPaths(Deep(heap, mappings[j])) :
            heap' = [heap EXCEPT ![RefAt(heap, mappings[j], p).i].l = Append(@, Changed)]
    /\ edits' = edits + 1
    /\ UNCHANGED <<env, files, pc, outcome, configs, mappings, returned, touched, merged>>

\* config.section.field = "changed", on a Config load_config returned
CallerSetAttr ==
    /\ pc = "running"
    /\ edits < MaxMods
    /\ \E j \in 1..Len(configs) :
         \E p \in LeafPaths(Deep(heap, configs[j])) :
            /\ heap' = SetItem(heap, RefAt(heap, configs[j], Front(p)), Last(p), Changed)
            /\ touched' = touched \cup {<<j, p>>}
    /\ edits' = edits + 1
    /\ UNCHANGED <<env, files, pc, outcome, configs, mappings, returned, merged>>

NextCaller == CallLoad \/ CallToDict \/ CallerSetItem \/ CallerAppend \/ CallerSetAttr

SpecCaller == InitCaller /\ [][NextCaller]_vars

-----------------------------------------------------------------------------
(* _merge_configs on mappings a caller has built.                          *)

MergeKeys   == {"a", "b"}
MergePaths  == {<<k>> : k \in MergeKeys} \cup {<<k, j>> : k \in MergeKeys, j \in MergeKeys}
MergeValues == {NInt(1), NInt(2), StrList(<<"x">>)}

\* whether d.setdefault(path[1], {})...[path[n]] = v goes through: every
\* mapping on the way is a dict or is not there yet
RECURSIVE CanPut(_, _, _)
CanPut(h, d, path) ==
    IF Len(path) = 1 \/ path[1] \notin DOMAIN h[d.i].d THEN TRUE
    ELSE IF IsDict(h, h[d.i].d[path[1]]) THEN CanPut(h, h[d.i].d[path[1]], Tail(path))
    ELSE FALSE

InitMerge ==
    /\ env = [v \in EnvVars |-> None]
    /\ files = [p \in Paths |-> NoFile]
    /\ heap = <<EmptyDict, EmptyDict>>
    /\ pc = "build"
    /\ edits = 0
    /\ outcome = NoOutcome
    /\ configs = <<>>
    /\ mappings = <<>>
    /\ returned = <<>>
    /\ touched = {}
    /\ merged = [base |-> Ref(1), override |-> Ref(2), before |-> <<>>, results |-> <<>>]

\* the caller fills in base or override
MergePut ==
    /\ pc = "build"
    /\ edits < MaxPuts
    /\ \E d \in {merged.base, merged.override}, p \in MergePaths, n \in MergeValues :
         /\ CanPut(heap, d, p)
         /\ \E v \in {Build(heap, n)} : heap' = SetDefaultPath(v.heap, d, p, v.val)
    /\ edits' = edits + 1
    /\ UNCHANGED <<env, files, pc, outcome, configs, mappings, returned, touched, merged>>

\* result = _merge_configs(base, override), called once and then once more
CallMerge ==
    /\ pc \in {"build", "merged"}
    /\ Len(merged.results) < 2
    /\ \E r \in {merge_configs(heap, merged.base, merged.override)} :
         /\ r.err = ""
         /\ heap' = r.heap
         /\ merged' = [merged EXCEPT
                         !.results = Append(@, r.val),
                         !.before  = IF pc = "build"
                                     THEN <<Deep(heap, merged.base), Deep(heap, merged.override)>>
                                     ELSE @]
    /\ pc' = "merged"
    /\ UNCHANGED <<env, files, edits, outcome, configs, mappings, returned, touched>>

NextMerge == MergePut \/ CallMerge

SpecMerge == InitMerge /\ [][NextMerge]_vars

-----------------------------------------------------------------------------
(* What the properties are stated with.                                    *)

Loaded    == pc = "loaded"
Succeeded == outcome.err = "" /\ Len(returned) = 1

\* a variable that is exported, and one exported with a value that is not empty
IsSet(v)    == env[v].set
NonEmpty(v) == env[v].set /\ env[v].s # ""

\* the file the resolution order of the documentation settles on
ExpectedFile ==
    IF outcome.arg.set /\ outcome.arg.s # ""
    THEN IF Exists(files, outcome.arg.s) THEN <<outcome.arg.s>> ELSE <<>>
    ELSE IF Exists(files, DefaultPath) THEN <<DefaultPath>>
    ELSE IF Exists(files, DevelopmentPath) THEN <<DevelopmentPath>>
    ELSE IF env[ConfigPathVar].set /\ Exists(files, env[ConfigPathVar].s)
         THEN <<env[ConfigPathVar].s>>
    ELSE <<>>

\* the document of that file; an empty mapping if there is none
ExpectedDoc ==
    IF ExpectedFile = <<>> \/ files[ExpectedFile[1]].kind # "yaml" THEN NMap(EmptyMap)
    ELSE files[ExpectedFile[1]].doc

\* a mapping that names only keys of the schema, at every level
RECURSIVE Covers(_, _)
Covers(schema, doc) ==
    /\ doc.t = "map"
    /\ DOMAIN doc.m \subseteq DOMAIN schema.m
    /\ \A k \in DOMAIN doc.m : schema.m[k].t = "map" => Covers(schema.m[k], doc.m[k])

\* the fields the document gives, over the defaults for the rest
RECURSIVE Overlay(_, _)
Overlay(schema, doc) ==
    NMap([k \in DOMAIN schema.m |->
            IF k \notin DOMAIN doc.m THEN schema.m[k]
            ELSE IF schema.m[k].t = "map" THEN Overlay(schema.m[k], doc.m[k])
            ELSE doc.m[k]])

\* the document without the keys the schema does not know, at the levels asked for
RECURSIVE StripUnknown(_, _, _, _)
StripUnknown(schema, doc, at, levels) ==
    IF doc.t # "map" \/ schema.t # "map" THEN doc
    ELSE NMap([k \in {x \in DOMAIN doc.m : at \in levels => x \in DOMAIN schema.m} |->
                 IF k \in DOMAIN schema.m
                 THEN StripUnknown(schema.m[k], doc.m[k], at \o <<k>>, levels)
                 ELSE doc.m[k]])

\* the mappings of a document that from_dict reads key by key, and those it
\* hands to a constructor as keyword arguments
ReadByKey  == {<<>>, <<"apis">>, <<"education">>}
Sections   == MapPaths(DefaultConfig) \ ReadByKey
AllLevels  == MapPaths(DefaultConfig)

\* load_config("custom.yaml") with the file holding doc
LoadOf(doc) == load_config(<<>>, env, [files EXCEPT ![CustomPath] = Yaml(doc)], Some(CustomPath))

\* the load that happened ended as r did
SameOutcome(r) ==
    /\ r.err = outcome.err
    /\ r.err = "" => Deep(r.heap, r.val) = returned[1]

\* every spelling of "true"
TrueSpellings ==
    {a \o b \o c \o d : a \in {"t", "T"}, b \in {"r", "R"}, c \in {"u", "U"}, d \in {"e", "E"}}

\* the override variable of a field, as a set (empty if it has none)
VarsOf(path) == {EnvOverrides[j].var : j \in {i \in 1..Len(EnvOverrides) : EnvOverrides[i].at = path}}

IntVars == {EnvOverrides[j].var : j \in {i \in 1..Len(EnvOverrides) : EnvOverrides[i].type = "int"}}

\* the value the documentation gives a field whose variable holds s
Coerced(type, s) ==
    CASE type = "str"  -> NStr(s)
      [] type = "int"  -> NInt(ParseInt(s).n)
      [] type = "bool" -> NBool(s \in TrueSpellings)

\* a Config with every section and every field
Complete(cfg) == KeyPaths(cfg) = KeyPaths(DefaultConfig)

PortVar  == "OPENEDU_MCP_PORT"
DebugVar == "OPENEDU_MCP_DEBUG"

-----------------------------------------------------------------------------
(* Properties of load_config with the environment and the files of Spec.   *)

\* C1: when no configuration file is resolved and no override variable is
\* set, load_config returns without error a Config whose every field has its
\* documented default value.
C1_DefaultsWhenNothingGiven ==
    (Loaded /\ ExpectedFile = <<>> /\ \A v \in OverrideVars : ~IsSet(v))
        => (Succeeded /\ returned[1] = DefaultConfig)

\* C3, as stated: every leaf whose override variable is set holds the coerced
\* value of the variable, and every leaf the file gives whose variable is not
\* set keeps the file's value.
C3_SetVariableWins ==
    (Loaded /\ Succeeded) =>
        \A p \in LeafPaths(DefaultConfig) :
            IF \E v \in VarsOf(p) : IsSet(v)
            THEN \A j \in 1..Len(EnvOverrides) :
                    (EnvOverrides[j].at = p /\ IsSet(EnvOverrides[j].var))
                        => NodeAt(returned[1], p)
                             = Coerced(EnvOverrides[j].type, env[EnvOverrides[j].var].s)
            ELSE HasPath(ExpectedDoc, p) => NodeAt(returned[1], p) = NodeAt(ExpectedDoc, p)

\* C3, amended: every leaf whose override variable is set to a value that is
\* not empty holds the coerced value of the variable whatever the file says,
\* and every leaf the file gives whose variable is unset or empty keeps the
\* file's value: siblings of an overridden field and whole lists included.
C3_NonEmptyVariableWins ==
    (Loaded /\ Succeeded) =>
        \A p \in LeafPaths(DefaultConfig) :
            IF \E v \in VarsOf(p) : NonEmpty(v)
            THEN \A j \in 1..Len(EnvOverrides) :
                    (EnvOverrides[j].at = p /\ NonEmpty(EnvOverrides[j].var))
                        => NodeAt(returned[1], p)
                             = Coerced(EnvOverrides[j].type, env[EnvOverrides[j].var].s)
            ELSE HasPath(ExpectedDoc, p) => NodeAt(returned[1], p) = NodeAt(ExpectedDoc, p)

\* the port comes from the environment, its siblings and the lists from the file
C3_Witness ==
    /\ Loaded /\ Succeeded
    /\ env[PortVar] = Some("7000")
    /\ ExpectedDoc = FullDocFor(CustomPath)
    /\ NodeAt(returned[1], <<"server", "port">>) = NInt(7000)
    /\ NodeAt(returned[1], <<"server", "host">>) = NStr("0.0.0.0")
    /\ NodeAt(returned[1], <<"education", "subjects">>) = StrList(<<"Art">>)

\* C6, as stated: an integer override variable set to a value that is no
\* integer makes load_config fail with the coercion error and return no
\* Config; a load ends with a complete Config or with a failure.
C6_SetNonIntegerFails ==
    Loaded =>
        /\ (\E v \in IntVars : IsSet(v) /\ ~ParseInt(env[v].s).ok)
               => (outcome.err = "ValueError" /\ configs = <<>>)
        /\ IF outcome.err = "" THEN Succeeded /\ Complete(returned[1]) ELSE configs = <<>>

\* C6, amended: an integer override variable set to a value that is not empty
\* and is no integer makes load_config fail and return no Config: with the
\* coercion error, or with the parse error of a malformed file, which is read
\* first; a load ends with a complete Config or with a failure.
C6_NonEmptyNonIntegerFails ==
    Loaded =>
        /\ (\E v \in IntVars : NonEmpty(v) /\ ~ParseInt(env[v].s).ok)
               => /\ configs = <<>>
                  /\ outcome.err = IF ExpectedFile # <<>> /\ files[ExpectedFile[1]].kind = "malformed"
                                   THEN "YAMLError" ELSE "ValueError"
        /\ IF outcome.err = "" THEN Succeeded /\ Complete(returned[1]) ELSE configs = <<>>

\* a file that loads on its own, and a port that is no integer
C6_Witness ==
    /\ Loaded
    /\ env[PortVar] = Some("7k")
    /\ ExpectedDoc = FullDocFor(CustomPath)
    /\ outcome.err = "ValueError"
    /\ configs = <<>>

\* C7, as stated: with the DEBUG variable set, server.debug is true exactly if
\* the value is a spelling of "true", whatever the file says; with it unset,
\* server.debug is the file's value, or the default.
C7_SetDebugDecides ==
    (Loaded /\ Succeeded) =>
        NodeAt(returned[1], <<"server", "debug">>) =
            IF IsSet(DebugVar) THEN NBool(env[DebugVar].s \in TrueSpellings)
            ELSE IF HasPath(ExpectedDoc, <<"server", "debug">>)
                 THEN NodeAt(ExpectedDoc, <<"server", "debug">>)
                 ELSE NBool(FALSE)

\* C7, amended: with the DEBUG variable set to a value that is not empty,
\* server.debug is true exactly if the value is a spelling of "true",
\* whatever the file says; with it unset or empty, server.debug is the file's
\* value, or the default.
C7_NonEmptyDebugDecides ==
    (Loaded /\ Succeeded) =>
        NodeAt(returned[1], <<"server", "debug">>) =
            IF NonEmpty(DebugVar) THEN NBool(env[DebugVar].s \in TrueSpellings)
            ELSE IF HasPath(ExpectedDoc, <<"server", "debug">>)
                 THEN NodeAt(ExpectedDoc, <<"server", "debug">>)
                 ELSE NBool(FALSE)

\* "TRUE" turns debug on over a file that does not mention it
C7_Witness ==
    /\ Loaded /\ Succeeded
    /\ env[DebugVar] = Some("TRUE")
    /\ ExpectedDoc = ApisDoc
    /\ NodeAt(returned[1], <<"server", "debug">>) = NBool(TRUE)

\* the paths the documentation has load_config test for existence
ExpectedProbes ==
    IF outcome.arg.set /\ outcome.arg.s # "" THEN <<outcome.arg.s>>
    ELSE IF Exists(files, DefaultPath) THEN <<DefaultPath>>
    ELSE IF Exists(files, DevelopmentPath) THEN <<DefaultPath, DevelopmentPath>>
    ELSE <<DefaultPath, DevelopmentPath,
           IF env[ConfigPathVar].set THEN env[ConfigPathVar].s ELSE DefaultPath>>

\* C9: without an explicit path, config/default.yaml, config/development.yaml
\* and the path of the config-path variable are probed in this order and
\* exactly the first that exists is read; an explicit path is read only if it
\* exists, and if it does not, no file is read and no error is raised.
C9_ResolutionOrder ==
    Loaded =>
        /\ outcome.probed = ExpectedProbes
        /\ outcome.opened = ExpectedFile
        /\ (outcome.arg.set /\ outcome.arg.s # "" /\ ~Exists(files, outcome.arg.s)
              /\ \A v \in OverrideVars : ~IsSet(v))
               => outcome.err = ""

-----------------------------------------------------------------------------
(* Properties of load_config on one edited file, of SpecDoc.               *)

\* C2: a file holding a mapping over any subset of the schema's keys, with no
\* override variable set, loads into a Config whose fields are the mapping's
\* where it gives them and the defaults where it does not.
C2_PartialMapping ==
    (Loaded /\ Covers(DefaultConfig, TheDoc) /\ \A v \in OverrideVars : ~IsSet(v))
        => (Succeeded /\ returned[1] = Overlay(DefaultConfig, TheDoc))

\* C4: for every Config c that load_config produces, from_dict(c.to_dict())
\* succeeds and equals c field by field.
C4_RoundTrip ==
    pc = "roundtrip" =>
        /\ outcome.rt = ""
        /\ Len(configs) = 2
        /\ Deep(heap, configs[2]) = Deep(heap, configs[1])
        /\ Deep(heap, configs[1]) = returned[1]

\* a Config that is not the default one went round, into a second object
C4_Witness ==
    /\ pc = "roundtrip"
    /\ Len(configs) = 2
    /\ configs[1] # configs[2]
    /\ TheDoc = FullDocFor(CustomPath)
    /\ Deep(heap, configs[2]) = TheDoc

-----------------------------------------------------------------------------
(* Properties of the caller of SpecCaller.                                 *)

\* C10: whatever the caller loads, exports with to_dict and modifies, every
\* field of a returned Config that the caller did not set on that Config
\* itself still has the value it had when load_config returned it.
C10_NoSharedState ==
    \A j \in 1..Len(configs) :
        \A p \in LeafPaths(returned[j]) :
            <<j, p>> \notin touched
                => /\ HasPath(Deep(heap, configs[j]), p)
                   /\ NodeAt(Deep(heap, configs[j]), p) = NodeAt(returned[j], p)

-----------------------------------------------------------------------------
(* Properties of _merge_configs, of SpecMerge.                             *)

\* every key of b that o does not have is in r with b's value, at every level
\* the merge descends into
RECURSIVE Preserved(_, _, _)
Preserved(b, o, r) ==
    \A k \in DOMAIN b.m :
        IF k \notin DOMAIN o.m THEN Has(r, k) /\ r.m[k] = b.m[k]
        ELSE (b.m[k].t = "map" /\ o.m[k].t = "map")
                => (Has(r, k) /\ Preserved(b.m[k], o.m[k], r.m[k]))

\* C8: _merge_configs leaves base and override, nested mappings included, as
\* they were; two calls on the same inputs return equal results; every key of
\* base that override does not have is in the result with base's value.
C8_MergePure ==
    pc = "merged" =>
        /\ Deep(heap, merged.base) = merged.before[1]
        /\ Deep(heap, merged.override) = merged.before[2]
        /\ \A j \in 1..Len(merged.results) :
              Preserved(merged.before[1], merged.before[2], Deep(heap, merged.results[j]))
        /\ Len(merged.results) = 2
              => Deep(heap, merged.results[1]) = Deep(heap, merged.results[2])

\* two merges that descended into a nested mapping both inputs have, with a
\* key of base that override lacks
C8_Witness ==
    /\ pc = "merged"
    /\ Len(merged.results) = 2
    /\ merged.results[1] # merged.results[2]
    /\ \E k \in MergeKeys :
          /\ Has(merged.before[1], k) /\ Has(merged.before[2], k)
          /\ merged.before[1].m[k].t = "map" /\ merged.before[2].m[k].t = "map"
          /\ DOMAIN merged.before[1].m[k].m \ DOMAIN merged.before[2].m[k].m # {}
          /\ DOMAIN merged.before[2].m[k].m \ DOMAIN merged.before[1].m[k].m # {}
====
